---------------------------- MODULE Spec2Model ----------------------------
(***************************************************************************)
(* Model of the GeoSnap capture application (App, src/unnamed/part_000)    *)
(* and of its watermark compositor (src/components/PhotoWatermarker.tsx).  *)
(*                                                                         *)
(* Five specifications share the module:                                   *)
(*   Spec         the session controller: camera, geolocation, capture,    *)
(*                address lookup, compositor invocations (React effect     *)
(*                runs with their pending image loads) and auto-save;      *)
(*   SpecCompose  the body of one compositor invocation (img.onload):      *)
(*                text preparation, wrapText, panel height, draw pass;     *)
(*   SpecScale    the font-size derivation over changing image widths;     *)
(*   SpecLive     Spec under the fairness of timers and image loads;       *)
(*   SpecWrap     wrapText applied to any text, the empty string included. *)
(*                                                                         *)
(* Lengths are kept in tenths of a pixel so that the factors 0.9, 1.3,     *)
(* 1.4 and 0.2 of the source stay exact integers.                          *)
(***************************************************************************)
EXTENDS Integers, Sequences, FiniteSets, Bags, TLC

VARIABLES
  \* ---- session controller (App) ----
  appState,       \* AppState: "IDLE" | "CAMERA" | "PREVIEW"
  personnelName,  \* operator name typed on the idle screen (sequence of characters)
  camReq,         \* number of getUserMedia requests awaited by startCamera
  watching,       \* TRUE once startGeolocation registered a position watch
  location,       \* App state `location`: None or Some(GeoLocation)
  currentImage,   \* App state `currentImage`: None or Some(CapturedImage)
  autoSaved,      \* App state `autoSaved`
  captures,       \* number of captures taken so far (names the frame / clock instant)
  runs,           \* compositor invocations whose image load is pending: a bag of the
                  \* records their onload closures captured
  runCount,       \* compositor invocations started so far on the latest capture,
                  \* counted up to MaxRuns
  decodeFailed,   \* TRUE once an image load of the latest capture ended in a decode error
  fetches,        \* fetchAddress calls awaited by capturePhoto
  saved,          \* automatic save + upload firings so far on the latest capture
  timer,          \* timeout set by the auto-save effect: 0 none, else 1 or 2, the
                  \* handle of the pending timeout (consecutive timeouts differ)
  \* ---- one compositor invocation (PhotoWatermarker, img.onload) ----
  image,          \* prop `image`: the record the effect closure captured
  img,            \* the decoded source bitmap: [width, height] in pixels
  pc,             \* position inside img.onload
  canvas,         \* canvasRef.current: [width, height]
  ctx,            \* 2d context state: [font, fillStyle, textAlign, textBaseline]
  coordsStr,      \* text of the coordinates line
  addressStr,     \* text that is wrapped into the address block
  sizes,          \* [baseFontSize, timeFontSize, smallFontSize, padding] in pixels
  addressLines,   \* result of wrapText(addressStr, baseFontSize, true)
  totalTextHeight,\* tenths of a pixel
  gradientHeight, \* tenths of a pixel
  panel,          \* the fillRect call painting the gradient: [x, y, w, h], tenths
  currentY,       \* baseline of the next line, tenths of a pixel
  loopI,          \* index i of the address loop (1-based)
  drawn,          \* the fillText calls so far: [field, text, x, y, font, fillStyle]
  processedUrl,   \* TRUE once canvas.toDataURL was handed to onProcessed
  delivered       \* the images handed to onProcessed so far by the invocations on
                  \* this canvas element: [canvas, img, panel, drawn] each

appVars == <<appState, personnelName, camReq, watching, location, currentImage,
             autoSaved, captures, runs, runCount, decodeFailed, fetches, saved,
             timer>>

cmpVars == <<image, img, pc, canvas, ctx, coordsStr, addressStr, sizes,
             addressLines, totalTextHeight, gradientHeight, panel, currentY,
             loopI, drawn, processedUrl, delivered>>

vars == <<appVars, cmpVars>>

-----------------------------------------------------------------------------
(* Bounds *)

MaxCaptures == 2     \* captures per session
MaxRuns     == 3     \* compositor invocations counted per capture
MaxCamReq   == 1     \* simultaneous getUserMedia requests
MaxPos      == 2     \* distinct positions reported by the geolocation watch
MaxLen      == 5     \* characters of a resolved address
MaxInvocations == 2  \* compositor invocations followed on one canvas element

-----------------------------------------------------------------------------
(* Optional values: `x | null | undefined` of the source *)

None == << >>

Some(x) == <<x>>

Get(o) == o[1]

NoPos == 0                       \* lat / lng undefined

NoAddress == << >>               \* GeoLocation.address absent

\* fetchAddress(lat, lng): the address of the position on success, "" when the
\* service has no data or the request fails
AddressOf(p) == <<"address", p>>

EmptyString == << >>

FetchResults(p) == { AddressOf(p), EmptyString }

DeviceName == "Laptop/PC"

Names == { << >>, <<" ">>, <<"A", " ">> }

RECURSIVE TrimStart(_)
TrimStart(s) == IF s # << >> /\ Head(s) = " " THEN TrimStart(Tail(s)) ELSE s

RECURSIVE TrimEnd(_)
TrimEnd(s) == IF s # << >> /\ s[Len(s)] = " " THEN TrimEnd(SubSeq(s, 1, Len(s) - 1)) ELSE s

\* String.prototype.trim
Trim(s) == TrimEnd(TrimStart(s))

-----------------------------------------------------------------------------
(* The compositor as seen by the session controller *)

\* What one invocation reads of the record its effect closure captured, and so
\* what its exported image is a function of: every field but processedDataUrl.
\* The exported data URL is represented by that same record.
Composite(rec) ==
  [ originalDataUrl |-> rec.originalDataUrl,
    timestamp       |-> rec.timestamp,
    location        |-> rec.location,
    personnelName   |-> rec.personnelName,
    deviceName      |-> rec.deviceName ]

\* image.location is set but carries no lat: `rec.location.lat.toFixed(6)` throws
OnloadThrows(rec) ==
  rec.location # None /\ Get(rec.location).pos = NoPos

\* <PhotoWatermarker> is rendered only on the preview screen and only while
\* currentImage is non-null
Mounted(state, cur) == state = "PREVIEW" /\ cur # None

\* useEffect(..., [image, onProcessed]): a commit that hands the mounted
\* component a new `image` object starts an invocation: a new Image() whose
\* onload closes over that object.  Earlier loads are not cancelled.
EffectStarts(state, cur) == Mounted(state, cur)

EffectRuns(state, cur, rs) ==
  IF EffectStarts(state, cur)
  THEN rs (+) SetToBag({ Composite(Get(cur)) })
  ELSE rs

\* invocations are counted up to MaxRuns; the effect itself has no limit
EffectCount(state, cur, rc) ==
  IF EffectStarts(state, cur) /\ rc < MaxRuns THEN rc + 1 ELSE rc

-----------------------------------------------------------------------------
(* The auto-save effect *)

\* variant of TimerArmedIn: the composited image is not asked for
TimerArmedInWithoutImage(state, cur, auto) ==
  /\ state = "PREVIEW"
  /\ cur # None
  /\ ~auto

\* the effect's condition: preview screen, composited image present, not yet
\* saved; it sets a 500 ms timeout exactly then
TimerArmedIn(state, cur, auto) ==
  /\ state = "PREVIEW"
  /\ cur # None
  /\ Get(cur).processedDataUrl # None
  /\ ~auto

\* a handle other than that of the timeout just cleared
NextTimer(t) == IF t = 1 THEN 2 ELSE 1

\* a dependency (appState, processedDataUrl, autoSaved, downloadImage, sendData;
\* the last two are re-created with every new currentImage object) changed: the
\* cleanup clears the pending timeout, the effect sets a new one when its
\* condition holds
Rearm(state, cur, auto, t) ==
  IF TimerArmedIn(state, cur, auto) THEN NextTimer(t) ELSE 0

-----------------------------------------------------------------------------
(* Session controller actions *)

AppInit ==
  /\ appState = "IDLE"
  /\ personnelName = << >>
  /\ camReq = 0
  /\ watching = FALSE
  /\ location = None
  /\ currentImage = None
  /\ autoSaved = FALSE
  /\ captures = 0
  /\ runs = EmptyBag
  /\ runCount = 0
  /\ decodeFailed = FALSE
  /\ fetches = {}
  /\ saved = 0
  /\ timer = 0

\* <input onChange={e => setPersonnelName(e.target.value)}> on the idle screen
SetPersonnelName(name) ==
  /\ appState = "IDLE"
  /\ name # personnelName
  /\ personnelName' = name
  /\ UNCHANGED <<appState, camReq, watching, location, currentImage, autoSaved,
                 captures, runs, decodeFailed, runCount, fetches, saved,
                 timer, cmpVars>>

\* startCamera up to its await: the name check, then getUserMedia is requested
StartCameraRequest ==
  /\ Trim(personnelName) # << >>
  /\ camReq < MaxCamReq
  /\ camReq' = camReq + 1

\* "Bắt đầu Chụp" on the idle screen
ClickStart ==
  /\ appState = "IDLE"
  /\ StartCameraRequest
  /\ UNCHANGED <<appState, personnelName, watching, location, currentImage,
                 autoSaved, captures, runs, decodeFailed, runCount, fetches, saved,
                 timer, cmpVars>>

\* startCamera after the await resolved: stream, CAMERA, autoSaved, geolocation
CameraGranted ==
  /\ camReq > 0
  /\ camReq' = camReq - 1
  /\ appState' = "CAMERA"
  /\ autoSaved' = FALSE
  /\ watching' = TRUE
  /\ timer' = Rearm(appState', currentImage, autoSaved', timer)
  /\ UNCHANGED <<personnelName, location, currentImage, captures, runs, decodeFailed,
                 runCount, fetches, saved,
                 cmpVars>>

\* startCamera's catch branch: alert only
CameraDenied ==
  /\ camReq > 0
  /\ camReq' = camReq - 1
  /\ UNCHANGED <<appState, personnelName, watching, location, currentImage,
                 autoSaved, captures, runs, decodeFailed, runCount, fetches, saved,
                 timer, cmpVars>>

\* the close button of the viewfinder: stopCamera(); setAppState(IDLE)
CancelCamera ==
  /\ appState = "CAMERA"
  /\ appState' = "IDLE"
  /\ timer' = Rearm(appState', currentImage, autoSaved, timer)
  /\ UNCHANGED <<personnelName, camReq, watching, location, currentImage,
                 autoSaved, captures, runs, decodeFailed, runCount, fetches, saved,
                 cmpVars>>

\* watchPosition success callback: lat/lng replaced, address carried over
WatchPosition(p) ==
  /\ watching
  /\ location' = Some([ pos     |-> p,
                        address |-> IF location = None THEN NoAddress
                                    ELSE Get(location).address ])
  /\ location' # location
  /\ UNCHANGED <<appState, personnelName, camReq, watching, currentImage,
                 autoSaved, captures, runs, decodeFailed, runCount, fetches, saved,
                 timer, cmpVars>>

\* capturePhoto up to its await: the record is created, the preview screen
\* mounts the compositor (first invocation), the address lookup is requested
CapturePhoto ==
  /\ appState = "CAMERA"
  /\ captures < MaxCaptures
  /\ captures' = captures + 1
  /\ currentImage' = Some([ originalDataUrl  |-> captures + 1,
                            processedDataUrl |-> None,
                            location         |-> location,
                            timestamp        |-> captures + 1,
                            personnelName    |-> personnelName,
                            deviceName       |-> DeviceName ])
  /\ appState' = "PREVIEW"
  /\ runs' = EffectRuns(appState', currentImage', runs)
  /\ runCount' = EffectCount(appState', currentImage', 0)
  /\ decodeFailed' = FALSE
  /\ saved' = 0
  /\ timer' = Rearm(appState', currentImage', autoSaved, timer)
  /\ fetches' = IF location # None
                THEN fetches \cup { [cap |-> captures + 1, pos |-> Get(location).pos] }
                ELSE fetches
  /\ UNCHANGED <<personnelName, camReq, watching, location, autoSaved,
                 cmpVars>>

\* variant of FetchAddressDone: the address is merged into the position the
\* watch reports now, not into the record's own location
FetchAddressDoneFromWatch(f, address) ==
  /\ f \in fetches
  /\ fetches' = fetches \ {f}
  /\ IF address # EmptyString /\ currentImage # None
     THEN /\ currentImage' =
               Some([ Get(currentImage) EXCEPT !.location =
                        Some([ pos     |-> IF location = None THEN NoPos ELSE Get(location).pos,
                               address |-> address ]) ])
          /\ runs' = EffectRuns(appState, currentImage', runs)
          /\ runCount' = EffectCount(appState, currentImage', runCount)
          /\ timer' = Rearm(appState, currentImage', autoSaved, timer)
     ELSE UNCHANGED <<currentImage, runs, runCount, timer>>
  /\ UNCHANGED <<appState, personnelName, camReq, watching, location,
                 autoSaved, captures, decodeFailed, saved,
                 cmpVars>>

\* capturePhoto after `await fetchAddress`: a non-empty address is merged into
\* whatever record currentImage holds then; "" (no data, network error) is dropped
FetchAddressDone(f, address) ==
  /\ f \in fetches
  /\ fetches' = fetches \ {f}
  /\ IF address # EmptyString /\ currentImage # None
     THEN /\ currentImage' =
               Some([ Get(currentImage) EXCEPT !.location =
                        Some([ pos     |-> IF @ = None THEN NoPos ELSE Get(@).pos,
                               address |-> address ]) ])
          /\ runs' = EffectRuns(appState, currentImage', runs)
          /\ runCount' = EffectCount(appState, currentImage', runCount)
          /\ timer' = Rearm(appState, currentImage', autoSaved, timer)
     ELSE UNCHANGED <<currentImage, runs, runCount, timer>>
  /\ UNCHANGED <<appState, personnelName, camReq, watching, location,
                 autoSaved, captures, decodeFailed, saved,
                 cmpVars>>

\* img.onload of invocation r: paint, export, onProcessed(processedUrl), that is
\* handleProcessedImage: setCurrentImage(prev => prev ? {...prev, processedDataUrl} : null)
ImgLoad(r) ==
  /\ BagIn(r, runs)
  /\ IF OnloadThrows(r) \/ currentImage = None
     THEN /\ runs' = runs (-) SetToBag({r})
          /\ UNCHANGED <<currentImage, runCount, timer>>
     ELSE /\ currentImage' =
               Some([ Get(currentImage) EXCEPT !.processedDataUrl = Some(r) ])
          /\ runs' = EffectRuns(appState, currentImage', runs (-) SetToBag({r}))
          /\ runCount' = EffectCount(appState, currentImage', runCount)
          /\ timer' = Rearm(appState, currentImage', autoSaved, timer)
  /\ UNCHANGED <<appState, personnelName, camReq, watching, location,
                 autoSaved, captures, decodeFailed, fetches, saved,
                 cmpVars>>

\* the image of invocation r cannot be decoded: no onerror handler is set,
\* nothing runs
ImgError(r) ==
  /\ BagIn(r, runs)
  /\ runs' = runs (-) SetToBag({r})
  /\ decodeFailed' = (decodeFailed \/ r.originalDataUrl = captures)
  /\ UNCHANGED <<appState, personnelName, camReq, watching, location,
                 currentImage, autoSaved, captures, runCount, fetches, saved,
                 timer, cmpVars>>

\* the 500 ms timer of the auto-save effect is armed
TimerArmed == TimerArmedIn(appState, currentImage, autoSaved)

\* the pending timeout g fires: downloadImage(); sendData(); setAutoSaved(true)
TimerFires(g) ==
  /\ timer = g
  /\ TimerArmed
  /\ saved' = saved + 1
  /\ autoSaved' = TRUE
  /\ timer' = Rearm(appState, currentImage, autoSaved', timer)
  /\ UNCHANGED <<appState, personnelName, camReq, watching, location,
                 currentImage, captures, runs, decodeFailed, runCount, fetches,
                 cmpVars>>

\* "Chụp mới" on the preview screen: the record is dropped, then startCamera()
\* (which only alerts when the name check fails)
Reset ==
  /\ appState = "PREVIEW"
  /\ currentImage' = None
  /\ autoSaved' = FALSE
  /\ timer' = Rearm(appState, currentImage', autoSaved', timer)
  /\ \/ StartCameraRequest
     \/ /\ ~(Trim(personnelName) # << >> /\ camReq < MaxCamReq)
        /\ UNCHANGED camReq
  /\ UNCHANGED <<appState, personnelName, watching, location, captures, runs, decodeFailed,
                 runCount, fetches, saved,
                 cmpVars>>

AppNext ==
  \/ \E name \in Names : SetPersonnelName(name)
  \/ ClickStart
  \/ CameraGranted
  \/ CameraDenied
  \/ CancelCamera
  \/ \E p \in 1..MaxPos : WatchPosition(p)
  \/ CapturePhoto
  \/ \E f \in fetches : \E a \in FetchResults(f.pos) : FetchAddressDone(f, a)
  \/ \E r \in BagToSet(runs) : ImgLoad(r)
  \/ \E r \in BagToSet(runs) : ImgError(r)
  \/ \E g \in 1..2 : TimerFires(g)
  \/ Reset

-----------------------------------------------------------------------------
(* One compositor invocation: the body of img.onload *)

Max(a, b) == IF a >= b THEN a ELSE b

\* Characters of the modelled address texts: a narrow glyph, a wide glyph, the space
Alphabet == {"a", "W", " "}

Texts == UNION { [1..n -> Alphabet] : n \in 0..MaxLen }

\* "Đang cập nhật địa chỉ..." (letters written without their diacritics)
Placeholder ==
  << "D","a","n","g"," ","c","a","p"," ","n","h","a","t"," ",
     "d","i","a"," ","c","h","i",".",".","." >>

\* image widths and heights the camera may deliver, in pixels
Widths == {30, 40, 60, 100, 1000, 2580}

Heights == {30, 750}

\* the records one invocation may be handed: no location, or a location (lat
\* and lng in millionths of a degree) whose address is absent ("") or resolved
ImageWith(loc) ==
  [ location      |-> loc,
    timestamp     |-> [hour |-> 14, minute |-> 5, day |-> 1, month |-> 3, year |-> 2024],
    personnelName |-> <<"A", "n">>,
    deviceName    |-> <<"i", "P", "h", "o", "n", "e">> ]

\* "123 Nguyen Hue, District 1, Ho Chi Minh City, Viet Nam"
LongAddress ==
  << "1","2","3"," ","N","g","u","y","e","n"," ","H","u","e",","," ",
     "D","i","s","t","r","i","c","t"," ","1",","," ",
     "H","o"," ","C","h","i"," ","M","i","n","h"," ","C","i","t","y",","," ",
     "V","i","e","t"," ","N","a","m" >>

Images ==
  { ImageWith(None) } \cup
  { ImageWith(Some([ lat |-> 10762622, lng |-> 106660172, address |-> t ])) :
      t \in Texts \cup {LongAddress} } \cup
  { ImageWith(Some([ lat |-> -33000051, lng |-> 5, address |-> << >> ])) }

\* the context state of a fresh canvas, and the state the previous invocation
\* on the same canvas element left behind
DefaultCtx ==
  [ font |-> [bold |-> FALSE, size |-> 10], fillStyle |-> "#000000",
    textAlign |-> "start", textBaseline |-> "alphabetic" ]

LeftoverCtx ==
  [ font |-> [bold |-> TRUE, size |-> 36], fillStyle |-> "#38bdf8",
    textAlign |-> "right", textBaseline |-> "bottom" ]

DefaultCanvas == [width |-> 300, height |-> 150]

\* ctx.measureText(s).width under a font, in tenths of a pixel: the sum of the
\* glyph advances, each a number of tenths of the font size
GlyphUnits(c, bold) ==
  IF c = " " THEN 3
  ELSE (IF c = "W" THEN 9 ELSE 5) + (IF bold THEN 1 ELSE 0)

RECURSIVE TextUnits(_, _)
TextUnits(s, bold) ==
  IF s = << >> THEN 0 ELSE GlyphUnits(Head(s), bold) + TextUnits(Tail(s), bold)

MeasureText(s, font) == font.size * TextUnits(s, font.bold)

\* text.split(' '): the pieces between single spaces, empty pieces included
RECURSIVE SplitFrom(_, _, _)
SplitFrom(s, word, words) ==
  IF s = << >> THEN Append(words, word)
  ELSE IF Head(s) = " " THEN SplitFrom(Tail(s), << >>, Append(words, word))
  ELSE SplitFrom(Tail(s), Append(word, Head(s)), words)

Split(s) == SplitFrom(s, << >>, << >>)

DigitChar(d) == <<"0", "1", "2", "3", "4", "5", "6", "7", "8", "9">>[d + 1]

RECURSIVE Digits(_)
Digits(n) ==
  IF n < 10 THEN <<DigitChar(n)>> ELSE Append(Digits(n \div 10), DigitChar(n % 10))

RECURSIVE PadStart(_, _)
PadStart(s, n) == IF Len(s) >= n THEN s ELSE PadStart(<<"0">> \o s, n)

\* variant of ToFixed6: the decimals are not padded to six places
ToFixed6Unpadded(m) ==
  LET abs == IF m < 0 THEN -m ELSE m
  IN  (IF m < 0 THEN <<"-">> ELSE << >>)
        \o Digits(abs \div 1000000) \o <<".">> \o Digits(abs % 1000000)

\* Number.prototype.toFixed(6) of a value given in millionths
ToFixed6(m) ==
  LET abs == IF m < 0 THEN -m ELSE m
  IN  (IF m < 0 THEN <<"-">> ELSE << >>)
        \o Digits(abs \div 1000000) \o <<".">> \o PadStart(Digits(abs % 1000000), 6)

\* coordsStr: "" without a location, else `${lat.toFixed(6)}, ${lng.toFixed(6)}`
CoordsStr(rec) ==
  IF rec.location = None THEN << >>
  ELSE ToFixed6(Get(rec.location).lat) \o <<",", " ">> \o ToFixed6(Get(rec.location).lng)

\* addressStr: image.location?.address || placeholder
AddressStr(rec) ==
  IF rec.location = None \/ Get(rec.location).address = << >>
  THEN Placeholder
  ELSE Get(rec.location).address

\* fullTimeStr: `${timeStr} - ${dateStr}` in the vi-VN formats, 2-digit fields
FullTimeStr(rec) ==
  PadStart(Digits(rec.timestamp.hour), 2) \o <<":">>
    \o PadStart(Digits(rec.timestamp.minute), 2) \o <<" ", "-", " ">>
    \o PadStart(Digits(rec.timestamp.day), 2) \o <<"/">>
    \o PadStart(Digits(rec.timestamp.month), 2) \o <<"/">>
    \o Digits(rec.timestamp.year)

\* `${personStr} | ${deviceStr}`
PersonDeviceStr(rec) ==
  <<"N", "g", "u", "o", "i", " ", "c", "h", "u", "p", ":", " ">> \o rec.personnelName
    \o <<" ", "|", " ", "T", "h", "i", "e", "t", " ", "b", "i", ":", " ">> \o rec.deviceName

\* variant of BaseFontSize: Math.min written for Math.max
BaseFontSizeMin(W) == IF 24 <= (W * 35) \div 1000 THEN 24 ELSE (W * 35) \div 1000

\* Math.max(24, Math.floor(img.width * 0.035))
BaseFontSize(W) == Max(24, (W * 35) \div 1000)

\* Math.floor(baseFontSize * 1.5)
TimeFontSize(base) == (base * 3) \div 2

\* base sizes b below 400 for which the double b * 0.7 lies just under the
\* integer 7b/10, so that Math.floor yields one less
FloorShortfall == {90, 170, 180, 330, 340, 350, 360}

\* Math.floor(baseFontSize * 0.7)
SmallFontSize(base) ==
  (base * 7) \div 10 - (IF base \in FloorShortfall THEN 1 ELSE 0)

\* Math.floor(baseFontSize * 1.0)
Padding(base) == base

DeriveSizes(W) ==
  [ baseFontSize  |-> BaseFontSize(W),
    timeFontSize  |-> TimeFontSize(BaseFontSize(W)),
    smallFontSize |-> SmallFontSize(BaseFontSize(W)),
    padding       |-> Padding(BaseFontSize(W)) ]

\* the source's lengths, in tenths of a pixel
MaxWidth == canvas.width * 9                  \* canvas.width * 0.9

LineHeight == sizes.baseFontSize * 13         \* baseFontSize * 1.3

SmallLineHeight == sizes.smallFontSize * 14   \* smallFontSize * 1.4

TimeLineHeight == sizes.timeFontSize * 14     \* timeFontSize * 1.4

ExtraSpacing == sizes.baseFontSize * 2        \* baseFontSize * 0.2

PaddingHeight == sizes.padding * 10

RightAnchor == canvas.width * 10 - PaddingHeight

\* variant of StartY: the padding is added to the height, not subtracted
StartYBelowEdge == canvas.height * 10 + PaddingHeight

StartY == canvas.height * 10 - PaddingHeight

FontOf(isBold, fontSize) == [bold |-> isBold, size |-> fontSize]

\* variant of WrapLoop: the current line is measured without the tentative word
RECURSIVE WrapLoopMeasuresCurrentLine(_, _, _, _, _)
WrapLoopMeasuresCurrentLine(words, i, currentLine, lines, font) ==
  IF i > Len(words) THEN Append(lines, currentLine)
  ELSE LET width == MeasureText(currentLine, font)
       IN  IF width < MaxWidth
           THEN WrapLoopMeasuresCurrentLine(words, i + 1,
                  currentLine \o <<" ">> \o words[i], lines, font)
           ELSE WrapLoopMeasuresCurrentLine(words, i + 1, words[i],
                  Append(lines, currentLine), font)

\* variant of WrapLoop: a closed line is not pushed before the next one starts
RECURSIVE WrapLoopDropsClosedLine(_, _, _, _, _)
WrapLoopDropsClosedLine(words, i, currentLine, lines, font) ==
  IF i > Len(words) THEN Append(lines, currentLine)
  ELSE LET width == MeasureText(currentLine \o <<" ">> \o words[i], font)
       IN  IF width < MaxWidth
           THEN WrapLoopDropsClosedLine(words, i + 1,
                  currentLine \o <<" ">> \o words[i], lines, font)
           ELSE WrapLoopDropsClosedLine(words, i + 1, words[i], lines, font)

\* variant of WrapLoop: the tentative line is measured with a trailing space
RECURSIVE WrapLoopMeasuresTrailingSpace(_, _, _, _, _)
WrapLoopMeasuresTrailingSpace(words, i, currentLine, lines, font) ==
  IF i > Len(words) THEN Append(lines, currentLine)
  ELSE LET width == MeasureText(currentLine \o <<" ">> \o words[i] \o <<" ">>, font)
       IN  IF width < MaxWidth
           THEN WrapLoopMeasuresTrailingSpace(words, i + 1,
                  currentLine \o <<" ">> \o words[i], lines, font)
           ELSE WrapLoopMeasuresTrailingSpace(words, i + 1, words[i],
                  Append(lines, currentLine), font)

\* the loop of wrapText from word i on (1-based)
RECURSIVE WrapLoop(_, _, _, _, _)
WrapLoop(words, i, currentLine, lines, font) ==
  IF i > Len(words) THEN Append(lines, currentLine)
  ELSE LET width == MeasureText(currentLine \o <<" ">> \o words[i], font)
       IN  IF width < MaxWidth
           THEN WrapLoop(words, i + 1, currentLine \o <<" ">> \o words[i], lines, font)
           ELSE WrapLoop(words, i + 1, words[i], Append(lines, currentLine), font)

\* variant of WrapText: an empty text gives no line
WrapTextEmptyGivesNoLine(text, fontSize, isBold) ==
  IF text = << >> THEN << >>
  ELSE LET words == Split(text)
       IN  WrapLoop(words, 2, words[1], << >>, FontOf(isBold, fontSize))

WrapText(text, fontSize, isBold) ==
  LET words == Split(text)
  IN  WrapLoop(words, 2, words[1], << >>, FontOf(isBold, fontSize))

\* variant of TotalTextHeight: the coordinates line is not counted
TotalTextHeightNoCoords(nLines) ==
  TimeLineHeight + SmallLineHeight + nLines * LineHeight + PaddingHeight * 2

TotalTextHeight(nLines) ==
  TimeLineHeight + SmallLineHeight + nLines * LineHeight + SmallLineHeight
    + PaddingHeight * 2

GradientHeight(total) == total + PaddingHeight

\* ctx.fillText(text, rightAnchor, y) under the context state c
FillText(c, field, text, y) ==
  [ field |-> field, text |-> text, x |-> RightAnchor, y |-> y,
    font |-> c.font, fillStyle |-> c.fillStyle ]

\* the invocation is not running (the session controller specification)
CmpIdle ==
  /\ image = ImageWith(None)
  /\ img = [width |-> 0, height |-> 0]
  /\ pc = "idle"
  /\ canvas = DefaultCanvas
  /\ ctx = DefaultCtx
  /\ coordsStr = << >>
  /\ addressStr = << >>
  /\ sizes = DeriveSizes(0)
  /\ addressLines = << >>
  /\ totalTextHeight = 0
  /\ gradientHeight = 0
  /\ panel = [x |-> 0, y |-> 0, w |-> 0, h |-> 0]
  /\ currentY = 0
  /\ loopI = 0
  /\ drawn = << >>
  /\ processedUrl = FALSE
  /\ delivered = << >>

\* the effect ran: a record was captured and its bitmap is being decoded; the
\* canvas element is fresh or was used by an earlier invocation
CmpInit ==
  /\ image \in Images
  /\ img \in [width : Widths, height : Heights]
  /\ pc = "loading"
  /\ \/ canvas = DefaultCanvas /\ ctx = DefaultCtx
     \/ canvas = [width |-> 1000, height |-> 750] /\ ctx = LeftoverCtx
  /\ coordsStr = << >>
  /\ addressStr = << >>
  /\ sizes = DeriveSizes(0)
  /\ addressLines = << >>
  /\ totalTextHeight = 0
  /\ gradientHeight = 0
  /\ panel = [x |-> 0, y |-> 0, w |-> 0, h |-> 0]
  /\ currentY = 0
  /\ loopI = 0
  /\ drawn = << >>
  /\ processedUrl = FALSE
  /\ delivered = << >>

\* variant of OnLoad: the sizes are derived from canvas.width as it is before
\* the canvas takes the bitmap's dimensions
OnLoadSizesFromStaleCanvas ==
  /\ pc = "loading"
  /\ canvas' = [width |-> img.width, height |-> img.height]
  /\ coordsStr' = CoordsStr(image)
  /\ addressStr' = AddressStr(image)
  /\ sizes' = DeriveSizes(canvas.width)
  /\ ctx' = [ DefaultCtx EXCEPT !.textAlign = "right", !.textBaseline = "bottom",
                                !.font = FontOf(TRUE, sizes'.baseFontSize) ]
  /\ pc' = "wrap"
  /\ UNCHANGED <<image, img, addressLines, totalTextHeight, gradientHeight,
                 panel, currentY, loopI, drawn, processedUrl, delivered,
                 appVars>>

\* steps 1-5: canvas takes the bitmap's dimensions (which resets the context),
\* the texts are prepared, the sizes derived, alignment and font set
OnLoad ==
  /\ pc = "loading"
  /\ canvas' = [width |-> img.width, height |-> img.height]
  /\ coordsStr' = CoordsStr(image)
  /\ addressStr' = AddressStr(image)
  /\ sizes' = DeriveSizes(img.width)
  /\ ctx' = [ DefaultCtx EXCEPT !.textAlign = "right", !.textBaseline = "bottom",
                                !.font = FontOf(TRUE, sizes'.baseFontSize) ]
  /\ pc' = "wrap"
  /\ UNCHANGED <<image, img, addressLines, totalTextHeight, gradientHeight,
                 panel, currentY, loopI, drawn, processedUrl, delivered,
                 appVars>>

\* const addressLines = wrapText(addressStr, baseFontSize, true)
WrapAddress ==
  /\ pc = "wrap"
  /\ addressLines' = WrapText(addressStr, sizes.baseFontSize, TRUE)
  /\ ctx' = [ctx EXCEPT !.font = FontOf(TRUE, sizes.baseFontSize)]
  /\ pc' = "panel"
  /\ UNCHANGED <<image, img, canvas, coordsStr, addressStr, sizes,
                 totalTextHeight, gradientHeight, panel, currentY, loopI,
                 drawn, processedUrl, delivered,
                 appVars>>

\* total box height, then step 6: the gradient rectangle is filled
PaintPanel ==
  /\ pc = "panel"
  /\ totalTextHeight' = TotalTextHeight(Len(addressLines))
  /\ gradientHeight' = GradientHeight(totalTextHeight')
  /\ panel' = [ x |-> 0, y |-> canvas.height * 10 - gradientHeight',
                w |-> canvas.width * 10, h |-> gradientHeight' ]
  /\ ctx' = [ctx EXCEPT !.fillStyle = "gradient"]
  /\ pc' = "coords"
  /\ UNCHANGED <<image, img, canvas, coordsStr, addressStr, sizes, addressLines,
                 currentY, loopI, drawn, processedUrl, delivered,
                 appVars>>

\* variant of DrawCoords: an empty coordinates line takes no slot
DrawCoordsSkipsEmptySlot ==
  /\ pc = "coords"
  /\ ctx' = [ctx EXCEPT !.font = FontOf(FALSE, sizes.smallFontSize),
                        !.fillStyle = "#cbd5e1"]
  /\ drawn' = Append(drawn, FillText(ctx', "coords", coordsStr, StartY))
  /\ currentY' = IF coordsStr = << >> THEN StartY ELSE StartY - SmallLineHeight
  /\ loopI' = Len(addressLines)
  /\ pc' = "address"
  /\ UNCHANGED <<image, img, canvas, coordsStr, addressStr, sizes, addressLines,
                 totalTextHeight, gradientHeight, panel, processedUrl, delivered,
                 appVars>>

\* step 7, coordinates line at the bottom; the address loop is entered
DrawCoords ==
  /\ pc = "coords"
  /\ ctx' = [ctx EXCEPT !.font = FontOf(FALSE, sizes.smallFontSize),
                        !.fillStyle = "#cbd5e1"]
  /\ drawn' = Append(drawn, FillText(ctx', "coords", coordsStr, StartY))
  /\ currentY' = StartY - SmallLineHeight
  /\ loopI' = Len(addressLines)
  /\ pc' = "address"
  /\ UNCHANGED <<image, img, canvas, coordsStr, addressStr, sizes, addressLines,
                 totalTextHeight, gradientHeight, panel, processedUrl, delivered,
                 appVars>>

\* variant of DrawAddressLine: the lines are painted first to last
DrawAddressLineForward ==
  /\ pc = "address"
  /\ loopI >= 1
  /\ ctx' = [ctx EXCEPT !.font = FontOf(TRUE, sizes.baseFontSize),
                        !.fillStyle = "#ffffff"]
  /\ drawn' = Append(drawn, FillText(ctx', "address",
                                     addressLines[Len(addressLines) + 1 - loopI], currentY))
  /\ currentY' = currentY - LineHeight
  /\ loopI' = loopI - 1
  /\ UNCHANGED <<image, img, pc, canvas, coordsStr, addressStr, sizes,
                 addressLines, totalTextHeight, gradientHeight, panel,
                 processedUrl, delivered,
                 appVars>>

\* one iteration of `for (let i = addressLines.length - 1; i >= 0; i--)`
DrawAddressLine ==
  /\ pc = "address"
  /\ loopI >= 1
  /\ ctx' = [ctx EXCEPT !.font = FontOf(TRUE, sizes.baseFontSize),
                        !.fillStyle = "#ffffff"]
  /\ drawn' = Append(drawn, FillText(ctx', "address", addressLines[loopI], currentY))
  /\ currentY' = currentY - LineHeight
  /\ loopI' = loopI - 1
  /\ UNCHANGED <<image, img, pc, canvas, coordsStr, addressStr, sizes,
                 addressLines, totalTextHeight, gradientHeight, panel,
                 processedUrl, delivered,
                 appVars>>

\* the loop is left: person | device line, then the extra spacing before the time
DrawPersonDevice ==
  /\ pc = "address"
  /\ loopI < 1
  /\ ctx' = [ctx EXCEPT !.font = FontOf(FALSE, sizes.smallFontSize),
                        !.fillStyle = "#fbbf24"]
  /\ drawn' = Append(drawn, FillText(ctx', "person", PersonDeviceStr(image), currentY))
  /\ currentY' = currentY - SmallLineHeight - ExtraSpacing
  /\ pc' = "time"
  /\ UNCHANGED <<image, img, canvas, coordsStr, addressStr, sizes, addressLines,
                 totalTextHeight, gradientHeight, panel, loopI, processedUrl,
                 delivered, appVars>>

\* the time line on top
DrawTime ==
  /\ pc = "time"
  /\ ctx' = [ctx EXCEPT !.font = FontOf(TRUE, sizes.timeFontSize),
                        !.fillStyle = "#38bdf8"]
  /\ drawn' = Append(drawn, FillText(ctx', "time", FullTimeStr(image), currentY))
  /\ pc' = "export"
  /\ UNCHANGED <<image, img, canvas, coordsStr, addressStr, sizes, addressLines,
                 totalTextHeight, gradientHeight, panel, currentY, loopI,
                 processedUrl, delivered,
                 appVars>>

\* what canvas.toDataURL encodes: the bitmap drawn at the canvas size, the
\* gradient rectangle and the text calls on top of it
CanvasContent == [ canvas |-> canvas, img |-> img, panel |-> panel, drawn |-> drawn ]

\* step 8: onProcessed(canvas.toDataURL('image/jpeg', 0.85))
Export ==
  /\ pc = "export"
  /\ processedUrl' = TRUE
  /\ delivered' = Append(delivered, CanvasContent)
  /\ pc' = "done"
  /\ UNCHANGED <<image, img, canvas, ctx, coordsStr, addressStr, sizes,
                 addressLines, totalTextHeight, gradientHeight, panel, currentY,
                 loopI, drawn, appVars>>

\* the effect runs again with the same record (a re-render handed the
\* component an equal `image` in a new object) on the same <canvas> element:
\* the handler's locals are new, the canvas and its context are as they were left
Reinvoke ==
  /\ pc = "done"
  /\ Len(delivered) < MaxInvocations
  /\ pc' = "loading"
  /\ coordsStr' = << >>
  /\ addressStr' = << >>
  /\ sizes' = DeriveSizes(0)
  /\ addressLines' = << >>
  /\ totalTextHeight' = 0
  /\ gradientHeight' = 0
  /\ panel' = [x |-> 0, y |-> 0, w |-> 0, h |-> 0]
  /\ currentY' = 0
  /\ loopI' = 0
  /\ drawn' = << >>
  /\ processedUrl' = FALSE
  /\ UNCHANGED <<image, img, canvas, ctx, delivered, appVars>>

CmpNext ==
  \/ OnLoad
  \/ WrapAddress
  \/ PaintPanel
  \/ DrawCoords
  \/ DrawAddressLine
  \/ DrawPersonDevice
  \/ DrawTime
  \/ Export
  \/ Reinvoke

InitCompose == AppInit /\ CmpInit

SpecCompose == InitCompose /\ [][CmpNext]_vars

-----------------------------------------------------------------------------
(* wrapText on its own: any text, the empty string included, at any width *)

InitWrap ==
  /\ AppInit
  /\ image = ImageWith(None)
  /\ img \in [width : Widths, height : {750}]
  /\ pc = "wrap"
  /\ canvas = img
  /\ sizes = DeriveSizes(img.width)
  /\ ctx = [ DefaultCtx EXCEPT !.textAlign = "right", !.textBaseline = "bottom",
                               !.font = FontOf(TRUE, sizes.baseFontSize) ]
  /\ coordsStr = << >>
  /\ addressStr \in Texts \cup {LongAddress}
  /\ addressLines = << >>
  /\ totalTextHeight = 0
  /\ gradientHeight = 0
  /\ panel = [x |-> 0, y |-> 0, w |-> 0, h |-> 0]
  /\ currentY = 0
  /\ loopI = 0
  /\ drawn = << >>
  /\ processedUrl = FALSE
  /\ delivered = << >>

SpecWrap == InitWrap /\ [][WrapAddress]_vars

-----------------------------------------------------------------------------
(* The font-size derivation over changing image widths *)

MaxW == 2600    \* widest image, in pixels (base size 90, where floor(base * 0.7) falls short, included)

\* the sizes derived for an image of some width
SclInit ==
  /\ image = ImageWith(None)
  /\ img = [width |-> 1, height |-> 750]
  /\ pc = "derived"
  /\ canvas = [width |-> img.width, height |-> img.height]
  /\ ctx = DefaultCtx
  /\ coordsStr = << >>
  /\ addressStr = << >>
  /\ sizes = DeriveSizes(img.width)
  /\ addressLines = << >>
  /\ totalTextHeight = 0
  /\ gradientHeight = 0
  /\ panel = [x |-> 0, y |-> 0, w |-> 0, h |-> 0]
  /\ currentY = 0
  /\ loopI = 0
  /\ drawn = << >>
  /\ processedUrl = FALSE
  /\ delivered = << >>

\* the next invocation decodes an image of another width and derives its sizes
Rescale(W) ==
  /\ pc = "derived"
  /\ W # img.width
  /\ img' = [img EXCEPT !.width = W]
  /\ canvas' = [canvas EXCEPT !.width = W]
  /\ sizes' = DeriveSizes(W)
  /\ UNCHANGED <<image, pc, ctx, coordsStr, addressStr, addressLines,
                 totalTextHeight, gradientHeight, panel, currentY, loopI, drawn,
                 processedUrl, delivered,
                 appVars>>

SclNext == \E W \in 1..MaxW : Rescale(W)

InitScale == AppInit /\ SclInit

SpecScale == InitScale /\ [][SclNext]_vars

-----------------------------------------------------------------------------
(* The specifications of the session controller *)

Init == AppInit /\ CmpIdle

Next == AppNext

Spec == Init /\ [][Next]_vars

\* The controller under the scheduling the browser gives: a timeout that stays
\* pending (is not cleared) fires after its 500 ms, and an image load that is
\* pending completes.  A timeout that is cleared and set anew starts its delay
\* again, so fairness is per timeout handle.
Fairness ==
  /\ WF_vars(TimerFires(1))
  /\ WF_vars(TimerFires(2))
  /\ WF_vars(\E r \in BagToSet(runs) : ImgLoad(r))

SpecLive == Spec /\ Fairness

-----------------------------------------------------------------------------
(* Claims about the session controller and its compositor invocations *)

\* C1: the compositor runs at most twice per capture (once, and once more when
\* the record is amended with a resolved address); storing the composited
\* result in currentImage does not start another run.
C1_AtMostTwoCompositorRuns == runCount <= 2

HasAddress(rec) ==
  rec.location # None /\ Get(rec.location).address # NoAddress

\* processedDataUrl is the output composited from the record as it now stands
ProcessedFromLatest(rec) ==
  rec.processedDataUrl # None /\ Get(rec.processedDataUrl) = Composite(rec)

\* processedDataUrl is the output composited from the same capture before its
\* address was resolved (placeholder text)
ProcessedFromPlaceholder(rec) ==
  /\ rec.processedDataUrl # None
  /\ Get(rec.processedDataUrl).originalDataUrl = rec.originalDataUrl
  /\ ~HasAddress(Get(rec.processedDataUrl))

\* C2: a later invocation fully supersedes an earlier one: once the output
\* composited from the address-amended record is stored for a capture, the
\* earlier placeholder output of that capture is never stored over it, in any
\* order of the pending onload callbacks.
C2_LaterInvocationSupersedes ==
  [][ ( /\ currentImage # None
        /\ HasAddress(Get(currentImage))
        /\ ProcessedFromLatest(Get(currentImage))
        /\ currentImage' # None )
      => ~ProcessedFromPlaceholder(Get(currentImage')) ]_vars

\* the preview shows the spinner, and nothing that could end it is in flight
WaitingForever ==
  /\ appState = "PREVIEW"
  /\ currentImage # None
  /\ Get(currentImage).processedDataUrl = None
  /\ runs = EmptyBag
  /\ fetches = {}

\* C3: a decode failure of the source bitmap is surfaced to the caller: after
\* a failed image load the caller is not left waiting forever with
\* processedDataUrl = null.
C3_DecodeFailureSurfaced == decodeFailed => ~WaitingForever

\* the fields of a record that capturePhoto fixes: frame, instant, operator,
\* device and the position captured (NoPos when none was)
CapturedPos(rec) == IF rec.location = None THEN NoPos ELSE Get(rec.location).pos

FixedFields(rec) ==
  [ originalDataUrl |-> rec.originalDataUrl,
    timestamp       |-> rec.timestamp,
    personnelName   |-> rec.personnelName,
    deviceName      |-> rec.deviceName,
    pos             |-> CapturedPos(rec) ]

\* C13: as long as currentImage holds a record and no new capture is taken,
\* no step (address amendment, storing the composited image, position
\* updates, auto-save) changes the record's original frame, timestamp,
\* operator name, device name or captured position.
C13_FixedFieldsFrozen ==
  [][ (currentImage # None /\ currentImage' # None /\ captures' = captures) =>
        FixedFields(Get(currentImage')) = FixedFields(Get(currentImage)) ]_vars

\* a record that was amended with its address, composited and saved while
\* the watch has moved on to another position
C13_Witness ==
  /\ currentImage # None
  /\ HasAddress(Get(currentImage))
  /\ Get(currentImage).processedDataUrl # None
  /\ saved = 1
  /\ location # None
  /\ Get(location).pos # CapturedPos(Get(currentImage))
  /\ CapturedPos(Get(currentImage)) # NoPos

\* C15: every record held in currentImage has an operator name that is
\* non-empty after trimming.
C15_NameNonEmpty ==
  currentImage # None => Trim(Get(currentImage).personnelName) # << >>

\* C16: a resolved address is applied only to the capture it was looked up
\* for: the address in a record is the address of the record's own captured
\* position, and a record captured without location never gets a location.
C16_AddressOfOwnCapture ==
  currentImage # None =>
    LET rec == Get(currentImage)
    IN  rec.location # None =>
          /\ Get(rec.location).pos # NoPos
          /\ HasAddress(rec) => Get(rec.location).address = AddressOf(Get(rec.location).pos)

\* C18: the auto-save effect calls downloadImage and sendData at most once
\* per capture, and only while the preview holds a record with a composited
\* image that was not saved yet, also when currentImage was replaced while
\* the timer was pending.
C18_SaveOncePerCapture ==
  /\ [](saved <= 1)
  /\ [][ saved' = saved + 1 =>
           /\ appState = "PREVIEW"
           /\ currentImage # None
           /\ Get(currentImage).processedDataUrl # None
           /\ ~autoSaved /\ autoSaved'
           /\ currentImage' = currentImage ]_vars

\* the record was saved after it had been amended with its address and had
\* been replaced by several deliveries of the compositor
C18_Witness ==
  /\ saved = 1
  /\ autoSaved
  /\ currentImage # None
  /\ HasAddress(Get(currentImage))
  /\ ProcessedFromLatest(Get(currentImage))
  /\ runCount >= 3

\* C19: once the preview holds a composited image that is not saved yet,
\* the auto-save eventually fires (autoSaved becomes true) unless the user
\* resets or leaves the preview; restarting the timer on every new
\* currentImage object does not postpone it forever.
C19_AutoSaveEventually ==
  TimerArmed ~> (autoSaved \/ currentImage = None \/ appState # "PREVIEW")

-----------------------------------------------------------------------------
(* Claims about one compositor invocation (SpecCompose) *)

\* wrapText has returned
Wrapped == pc \in {"panel", "coords", "address", "time", "export", "done"}

\* the gradient panel is painted
PanelPainted == pc \in {"coords", "address", "time", "export", "done"}

\* every line is painted
AllDrawn == pc \in {"export", "done"}

\* the font wrapText measures with
AddressFont == FontOf(TRUE, sizes.baseFontSize)

HasSpace(s) == \E k \in 1..Len(s) : s[k] = " "

TooWide(line) == MeasureText(line, AddressFont) > MaxWidth

\* C4: every line returned by wrapText has measured width <= maxWidth, except
\* a line that is a single word whose own measured width exceeds maxWidth.
C4_WrapCorrectness ==
  Wrapped =>
    \A k \in 1..Len(addressLines) :
      \/ MeasureText(addressLines[k], AddressFont) <= MaxWidth
      \/ ~HasSpace(addressLines[k]) /\ TooWide(addressLines[k])

\* a text was wrapped into a line of several words and a line that is one
\* over-wide word
C4_Witness ==
  /\ Wrapped
  /\ \E k \in 1..Len(addressLines) : HasSpace(addressLines[k])
  /\ \E k \in 1..Len(addressLines) : ~HasSpace(addressLines[k]) /\ TooWide(addressLines[k])

\* lines.join(' ')
RECURSIVE Join(_)
Join(lines) ==
  IF lines = << >> THEN << >>
  ELSE IF Len(lines) = 1 THEN lines[1]
  ELSE lines[1] \o <<" ">> \o Join(Tail(lines))

\* the words of the lines, in order
RECURSIVE WordsOf(_)
WordsOf(lines) ==
  IF lines = << >> THEN << >> ELSE Split(Head(lines)) \o WordsOf(Tail(lines))

NonEmpty(word) == word # << >>

\* whitespace normalisation: leading and trailing spaces removed, runs of
\* spaces collapsed to one
Normalize(s) == Join(SelectSeq(Split(s), NonEmpty))

\* C5 as stated: joining the returned lines with single spaces reproduces the
\* whitespace-normalized input, for any input (leading, trailing or
\* consecutive spaces included).
C5_JoinIsNormalizedInput == Wrapped => Join(addressLines) = Normalize(addressStr)

\* C5 as amended: joining the returned lines with single spaces reproduces
\* the input string itself, character for character (spaces included), and
\* the words of the lines are the words of the input in their order.
C5_JoinIsInput ==
  Wrapped =>
    /\ Join(addressLines) = addressStr
    /\ WordsOf(addressLines) = Split(addressStr)

\* a text with surplus spaces was wrapped into several lines
C5_Witness ==
  /\ Wrapped
  /\ Len(addressLines) >= 2
  /\ Normalize(addressStr) # addressStr

\* the line heights the layout reserves, in tenths of a pixel
ReservedLineHeights ==
  sizes.timeFontSize * 14 + sizes.smallFontSize * 14
    + Len(addressLines) * sizes.baseFontSize * 13 + sizes.smallFontSize * 14

\* C6 as stated: the painted gradient panel has the total panel height, and
\* the total panel height is the sum of the reserved line heights plus
\* 2 * padding.
C6_PanelSizedByTotalHeight ==
  PanelPainted =>
    /\ panel.h = totalTextHeight
    /\ totalTextHeight = ReservedLineHeights + 2 * sizes.padding * 10

\* C6 as amended: the painted gradient panel is one padding taller than the
\* total panel height (it reaches from canvas.height - gradientHeight to the
\* bottom edge, over the full width), and the total panel height is the sum
\* of the reserved line heights plus 2 * padding.
C6_PanelSizedByTotalPlusPadding ==
  PanelPainted =>
    /\ panel.h = totalTextHeight + sizes.padding * 10
    /\ panel.y + panel.h = canvas.height * 10
    /\ panel.x = 0 /\ panel.w = canvas.width * 10
    /\ totalTextHeight = ReservedLineHeights + 2 * sizes.padding * 10

\* a panel was painted for several address lines on a scaled-up font
C6_Witness ==
  /\ PanelPainted
  /\ Len(addressLines) >= 2
  /\ sizes.baseFontSize > 24

\* the vertical span the draw pass consumed: every decrement of currentY plus
\* the reserved height of the time line on top
DrawnSpan == (canvas.height * 10 - sizes.padding * 10 - currentY) + sizes.timeFontSize * 14

\* C7: the computed panel height equals the vertical span consumed by the
\* bottom-up draw pass plus 2 * padding.
C7_PanelHeightConsistency ==
  AllDrawn => totalTextHeight = DrawnSpan + 2 * sizes.padding * 10

\* reserved line height of a painted line
SlotHeight(field) ==
  IF field = "address" THEN sizes.baseFontSize * 13
  ELSE IF field = "time" THEN sizes.timeFontSize * 14
  ELSE sizes.smallFontSize * 14

\* C8: the slot of every painted line, from its baseline up by its reserved
\* line height, lies between the top edge of the painted gradient panel and
\* the bottom edge of the image.
C8_LinesInsidePanel ==
  \A k \in 1..Len(drawn) :
    /\ panel.y <= drawn[k].y - SlotHeight(drawn[k].field)
    /\ drawn[k].y <= canvas.height * 10

\* all lines of a several-line address block are painted, the time line included
C8_Witness ==
  /\ pc = "done"
  /\ Len(addressLines) >= 2
  /\ drawn[Len(drawn)].field = "time"
  /\ panel.y > 0

\* the k-th fillText call of the documented order, given the one before it
ExpectedDraw(k) ==
  LET n == Len(addressLines)
  IN  IF k = 1
      THEN [ field |-> "coords", text |-> coordsStr,
             y |-> canvas.height * 10 - sizes.padding * 10 ]
      ELSE IF k = 2
      THEN [ field |-> "address", text |-> addressLines[n],
             y |-> drawn[1].y - sizes.smallFontSize * 14 ]
      ELSE IF k <= n + 1
      THEN [ field |-> "address", text |-> addressLines[n + 2 - k],
             y |-> drawn[k - 1].y - sizes.baseFontSize * 13 ]
      ELSE IF k = n + 2
      THEN [ field |-> "person", text |-> PersonDeviceStr(image),
             y |-> drawn[k - 1].y - sizes.baseFontSize * 13 ]
      ELSE [ field |-> "time", text |-> FullTimeStr(image),
             y |-> drawn[k - 1].y - sizes.smallFontSize * 14
                     - sizes.baseFontSize * 2 ]

\* C9: the lines are painted bottom-up with strictly decreasing baselines in
\* the order coordinates (at canvas.height - padding), address lines last to
\* first, person | device, extra margin of baseFontSize * 0.2, time; all
\* right-aligned to x = canvas.width - padding.
C9_StackingOrder ==
  /\ Len(drawn) <= Len(addressLines) + 3
  /\ \A k \in 1..Len(drawn) :
       /\ drawn[k].field = ExpectedDraw(k).field
       /\ drawn[k].text = ExpectedDraw(k).text
       /\ drawn[k].y = ExpectedDraw(k).y
       /\ drawn[k].x = canvas.width * 10 - sizes.padding * 10
       /\ k > 1 => drawn[k].y < drawn[k - 1].y

\* the whole stack is painted for an address wrapped into distinct lines
C9_Witness ==
  /\ pc = "done"
  /\ Len(drawn) = Len(addressLines) + 3
  /\ Len(addressLines) >= 2
  /\ addressLines[1] # addressLines[Len(addressLines)]

\* panel height and baselines written from the image dimensions and the number
\* of wrapped address lines alone (tenths of a pixel); j counts address lines
\* from the first
LayoutTotalHeight(n) ==
  sizes.timeFontSize * 14 + 2 * (sizes.smallFontSize * 14)
    + n * (sizes.baseFontSize * 13) + 2 * (sizes.padding * 10)

LayoutAddressBaseline(n, j) ==
  canvas.height * 10 - sizes.padding * 10 - sizes.smallFontSize * 14
    - (n - j) * (sizes.baseFontSize * 13)

LayoutPersonBaseline(n) == LayoutAddressBaseline(n, 0)

LayoutTimeBaseline(n) ==
  LayoutPersonBaseline(n) - sizes.smallFontSize * 14 - sizes.baseFontSize * 2

\* C11: without a location the coordinates line is the empty string, yet its
\* slot is reserved: the panel height and the baselines of the address,
\* person | device and time lines are the same expressions of the image
\* dimensions and the number of wrapped address lines with and without a
\* location.
C11_CoordsSlotReserved ==
  LET n == Len(addressLines)
  IN  /\ (pc # "loading" /\ image.location = None) => coordsStr = << >>
      /\ AllDrawn =>
            /\ totalTextHeight = LayoutTotalHeight(n)
            /\ drawn[1].field = "coords" /\ drawn[1].text = coordsStr
            /\ \A j \in 1..n : drawn[n + 2 - j].y = LayoutAddressBaseline(n, j)
            /\ drawn[n + 2].y = LayoutPersonBaseline(n)
            /\ drawn[n + 3].y = LayoutTimeBaseline(n)

\* a record without location was composited: the empty coordinates line was
\* painted below a several-line address block
C11_Witness ==
  /\ pc = "done"
  /\ image.location = None
  /\ drawn[1].text = << >>
  /\ Len(addressLines) >= 2

\* texts of the fillText calls of one field, in call order
PaintedTexts(field) ==
  LET RECURSIVE Pick(_)
      Pick(k) == IF k > Len(drawn) THEN << >>
                 ELSE IF drawn[k].field = field THEN <<drawn[k].text>> \o Pick(k + 1)
                 ELSE Pick(k + 1)
  IN  Pick(1)

\* the address lines painted, first line first, joined by single spaces
PaintedAddress ==
  LET lines == PaintedTexts("address")
      RECURSIVE Cat(_)
      Cat(k) == IF k < 1 THEN << >>
                ELSE IF k = Len(lines) THEN lines[k]
                ELSE Cat(k + 1) \o <<" ">> \o lines[k]
  IN  IF lines = << >> THEN << >> ELSE Cat(1)

\* the record carries an address the lookup resolved
AddressResolved(rec) == rec.location # None /\ Get(rec.location).address # << >>

IsDigit(c) == \E d \in 0..9 : DigitChar(d) = c

\* value of a string of decimal digits
RECURSIVE DigitsValue(_)
DigitsValue(s) ==
  IF s = << >> THEN 0
  ELSE 10 * DigitsValue(SubSeq(s, 1, Len(s) - 1))
         + (CHOOSE d \in 0..9 : DigitChar(d) = s[Len(s)])

\* s is a decimal numeral with an optional minus sign, at least one integer
\* digit, a point and exactly six decimals
SixDecimals(s) ==
  LET body == IF s # << >> /\ s[1] = "-" THEN Tail(s) ELSE s
  IN  /\ Len(body) >= 8
      /\ body[Len(body) - 6] = "."
      /\ \A k \in 1..Len(body) : k # Len(body) - 6 => IsDigit(body[k])

\* the value of such a numeral, in millionths
Millionths(s) ==
  LET neg  == s[1] = "-"
      body == IF neg THEN Tail(s) ELSE s
      val  == DigitsValue(SubSeq(body, 1, Len(body) - 7)) * 1000000
                + DigitsValue(SubSeq(body, Len(body) - 5, Len(body)))
  IN  IF neg THEN 0 - val ELSE val

\* s is "<a>, <b>", a and b numerals with six decimals of values lat and lng
IsCoordsOf(s, lat, lng) ==
  \E k \in 1..Len(s) :
    /\ s[k] = ","
    /\ k + 1 <= Len(s) /\ s[k + 1] = " "
    /\ SixDecimals(SubSeq(s, 1, k - 1))
    /\ SixDecimals(SubSeq(s, k + 2, Len(s)))
    /\ Millionths(SubSeq(s, 1, k - 1)) = lat
    /\ Millionths(SubSeq(s, k + 2, Len(s))) = lng

\* C12: the coordinates text is the empty string exactly when the record has
\* no location, else latitude and longitude with six decimals; the address
\* text is the placeholder exactly when no address is resolved, and a
\* resolved non-empty address is the text that is wrapped and painted.
C12_TextFallbacks ==
  /\ pc # "loading" =>
        /\ coordsStr = << >> <=> image.location = None
        /\ image.location # None =>
              IsCoordsOf(coordsStr, Get(image.location).lat, Get(image.location).lng)
        /\ addressStr = Placeholder <=> ~AddressResolved(image)
        /\ AddressResolved(image) => addressStr = Get(image.location).address
  /\ pc = "done" =>
        /\ PaintedTexts("coords") = <<coordsStr>>
        /\ PaintedAddress = addressStr

\* a record located south of the equator, close to the prime meridian, with no
\* address resolved was painted
C12_Witness ==
  /\ pc = "done"
  /\ image.location # None
  /\ Get(image.location).lat < 0
  /\ Get(image.location).lng < 1000000
  /\ PaintedAddress = Placeholder

\* C14: invocations on the same record with the same measurement function
\* hand over the same image: same canvas size, same panel, and the same
\* sequence of text calls (wrapped lines, baselines, fonts, colours), whatever
\* the earlier invocation or another use left in the canvas and its context.
C14_Deterministic ==
  \A i \in 1..Len(delivered) : \A j \in 1..Len(delivered) :
    delivered[i] = delivered[j]

\* a second invocation on the canvas of the first has delivered a
\* several-line address block
C14_Witness ==
  /\ pc = "done"
  /\ Len(delivered) = 2
  /\ Len(addressLines) >= 2
  /\ canvas.width # 1000

\* first and last word of a line or text
FirstWord(s) == Split(s)[1]

LastWord(s) == Split(s)[Len(Split(s))]

\* C17: wrapping is greedy: for every two consecutive returned lines, the
\* first line extended by a space and the first word of the next measures
\* not below the maximum text width (a break is placed only where the word
\* did not fit), and the final open line is always emitted.
C17_GreedyWrap ==
  Wrapped =>
    /\ Len(addressLines) >= 1
    /\ \A k \in 1..(Len(addressLines) - 1) :
         MeasureText(addressLines[k] \o <<" ">> \o FirstWord(addressLines[k + 1]),
                     AddressFont) >= MaxWidth
    /\ LastWord(addressLines[Len(addressLines)]) = LastWord(addressStr)

\* an address wrapped into at least three lines, the first of several words
C17_Witness ==
  /\ pc = "done"
  /\ Len(addressLines) >= 3
  /\ HasSpace(addressLines[1])
  /\ HasSpace(addressLines[Len(addressLines)])

-----------------------------------------------------------------------------
(* Claim about wrapText on any text (SpecWrap) *)

\* C20: wrapText never returns an empty sequence, and applied to the empty
\* string it returns exactly one line, the empty string.
C20_EmptyInputOneLine ==
  Wrapped =>
    /\ Len(addressLines) >= 1
    /\ addressStr = << >> => addressLines = << << >> >>

\* wrapText was applied to the empty string
C20_Witness ==
  /\ pc = "panel"
  /\ addressStr = << >>
  /\ Len(addressLines) = 1

-----------------------------------------------------------------------------
(* Claim about the font-size derivation (SpecScale) *)

\* C10: a wider image never gets a smaller base, time or small font size or a
\* smaller padding, and the base font size is never below 24.
C10_ScaleMonotonic ==
  /\ [](sizes.baseFontSize >= 24)
  /\ [][ img'.width >= img.width =>
           /\ sizes'.baseFontSize >= sizes.baseFontSize
           /\ sizes'.timeFontSize >= sizes.timeFontSize
           /\ sizes'.smallFontSize >= sizes.smallFontSize
           /\ sizes'.padding >= sizes.padding ]_vars

\* the sizes of a wide image, above the floor of 24, were derived after those
\* of another image
C10_Witness ==
  /\ pc = "derived"
  /\ img.width # 1
  /\ sizes.baseFontSize > 24
  /\ sizes.smallFontSize < sizes.padding /\ sizes.padding < sizes.timeFontSize

=============================================================================
